---------------------------- MODULE Spec2Model ----------------------------
(***************************************************************************)
(* Model of ts_backup.py: a one-shot, stat-based synchronisation of a      *)
(* backup directory with a source directory.                               *)
(*                                                                         *)
(*   DirCmpShallowOnly   the lazily computed, cached comparison of one     *)
(*                       directory pair (filecmp.dircmp phases 0..4)       *)
(*   BackupShallowDiff   collect_updates (thread pool walker and drain     *)
(*                       loop), process_diff (task body), collect_removals *)
(*   do_copy / do_remove the actions, wrapped by safe_action               *)
(*   __main__            check_and_create_folder, copy loop, remove loop   *)
(*                                                                         *)
(* A file system is a function from the relative paths of a small universe *)
(* to entries <<kind, size, mtime>>; the source tree is side "L", the      *)
(* backup tree side "R".                                                   *)
(***************************************************************************)
EXTENDS Integers, Sequences, FiniteSets, Bags, TLC

\* ------------------------------------------------------------------ bounds
\* st_size of a regular file ranges over 1..MaxSize
MaxSize == 2
\* width of the worker pool (ThreadPoolExecutor(10) in the source, scaled
\* down so that a submitted task can be left waiting for a free worker)
PoolWidth == 2
\* number of waits of the driver that time out in one run
MaxTimeouts == 1
\* st_mtime of the entries handed to the comparator ranges over 1..MaxMtime
MaxMtime == 2

\* --------------------------------------------------------- the file system
S_IFREG == "reg"
S_IFDIR == "dir"
NoEnt == <<"none", 0, 0>>
DirEnt == <<S_IFDIR, 0, 0>>
\* a symbolic link whose target is missing: os.listdir names it, os.stat of
\* it raises OSError
Lnk == <<"lnk", 0, 0>>
\* the regular files of the trees the runs start from: any size, st_mtime 1
RegEnts == {<<S_IFREG, sz, 1>> : sz \in 1..MaxSize}

Root == <<>>
\* the directory pairs that can occur (nodes of the diff tree)
Nodes == {Root, <<"a">>, <<"a", "b">>, <<"d">>}
Paths == Nodes \cup {<<"a", "b", "f">>, <<"a", "g">>, <<"tags">>}

\* What a path of the universe may be: a/b/f is a regular file of any size
\* and time, a/b a directory or a regular file, a/g a regular file, a and d
\* directories; there is no entry named tags.
EntriesAt(p) ==
    IF p = <<"a", "b", "f">> THEN {NoEnt} \cup RegEnts
    ELSE IF p = <<"a", "b">> THEN {NoEnt, DirEnt, <<S_IFREG, 1, 1>>}
    ELSE IF p = <<"a", "g">> THEN {NoEnt, <<S_IFREG, 1, 1>>}
    ELSE IF p = <<"tags">> THEN {NoEnt}
    ELSE {NoEnt, DirEnt}

\* The trees with the entries of a second family of runs: a/g may be a
\* dangling symbolic link, and there may be a regular file named tags (one of
\* the names of filecmp.DEFAULT_IGNORES); there is no d, and files have one
\* size.
EntriesAtLinks(p) ==
    IF p = <<"a", "b", "f">> THEN {NoEnt, <<S_IFREG, 1, 1>>}
    ELSE IF p = <<"a", "b">> THEN {NoEnt, DirEnt, <<S_IFREG, 1, 1>>}
    ELSE IF p = <<"a", "g">> THEN {NoEnt, <<S_IFREG, 1, 1>>, Lnk}
    ELSE IF p = <<"tags">> THEN {NoEnt, <<S_IFREG, 1, 1>>}
    ELSE IF p = <<"d">> THEN {NoEnt}
    ELSE {NoEnt, DirEnt}

Parent(p) == SubSeq(p, 1, Len(p) - 1)
Name(p) == p[Len(p)]
Under(p, q) == Len(q) >= Len(p) /\ SubSeq(q, 1, Len(p)) = p
ChildPaths(p) == {q \in Paths : Len(q) = Len(p) + 1 /\ Under(p, q)}

WellFormed(f) ==
    \A p \in Paths :
        /\ f[p] \in EntriesAt(p)
        /\ (p # Root /\ f[Parent(p)] # DirEnt) => f[p] = NoEnt

Trees == {f \in [Paths -> {NoEnt, DirEnt} \cup RegEnts] : WellFormed(f)}

WellFormedLinks(f) ==
    \A p \in Paths :
        /\ f[p] \in EntriesAtLinks(p)
        /\ (p # Root /\ f[Parent(p)] # DirEnt) => f[p] = NoEnt

TreesLinks ==
    {f \in [Paths -> {NoEnt, DirEnt, Lnk, <<S_IFREG, 1, 1>>}] :
        WellFormedLinks(f)}

isdir(f, p) == f[p][1] = S_IFDIR
\* os.path.lexists: there is an entry of this name
lexists(f, p) == f[p][1] # "none"
\* os.path.exists: os.stat of the path succeeds
exists(f, p) == f[p][1] \notin {"none", "lnk"}
\* os.stat of the entry raises OSError
stat_fails(ent) == ent[1] \in {"none", "lnk"}
\* os.listdir: the names present in directory p
listdir(f, p) == {Name(q) : q \in {c \in ChildPaths(p) : lexists(f, c)}}
\* the names of filecmp.DEFAULT_IGNORES that occur in the universe
DEFAULT_IGNORES == {"tags"}
\* filecmp._filter: dircmp.phase0 drops the hidden and ignored names from
\* both listings (ignore=None stands for DEFAULT_IGNORES)
_filter(flist, skip) == flist \ skip

\* ------------------------------------------------------- DirCmpShallowOnly
_sig(ent) == <<ent[1], ent[2], ent[3]>>

cmp(ent_a, ent_b) ==
    LET signature_a == _sig(ent_a)
        signature_b == _sig(ent_b)
        outcome0 == FALSE
        outcome1 == IF signature_a[1] # S_IFREG \/ signature_b[1] # S_IFREG
                    THEN FALSE ELSE outcome0
        outcome2 == IF signature_a = signature_b THEN TRUE ELSE outcome1
    IN  outcome2

\* index of the bucket of cmpfiles: 0 same, 1 different, 2 funny.
\* "not abs(True)" is False (index 0), "not abs(False)" is True (index 1),
\* an OSError of os.stat gives 2
_cmp(ent_a, ent_b) ==
    IF stat_fails(ent_a) \/ stat_fails(ent_b) THEN 2
    ELSE IF cmp(ent_a, ent_b) THEN 0 ELSE 1

cmpfiles(f, n, common_files) ==
    [i \in 0..2 |->
        {x \in common_files :
            _cmp(f.L[Append(n, x)], f.R[Append(n, x)]) = i}]

\* dircmp.phase1: names only on the left
phase1_left_only(a, b) == a \ b
\* a phase1 that takes the whole right listing
phase1_right_only_unfiltered(a, b) == b

\* dircmp.phase1: names only on the right
phase1_right_only(a, b) == b \ a
\* dircmp.phase1: names on both sides
phase1_common(a, b) == a \cap b

\* The attributes of one DirCmpShallowOnly object, computed from the file
\* system as it is when the first attribute is asked for (phase0..phase4).
DirCmp(f, n) ==
    LET left_list == _filter(listdir(f.L, n), DEFAULT_IGNORES)
        right_list == _filter(listdir(f.R, n), DEFAULT_IGNORES)
        common == phase1_common(left_list, right_list)
        a_type(x) == f.L[Append(n, x)][1]
        b_type(x) == f.R[Append(n, x)][1]
        ok(x) == ~stat_fails(f.L[Append(n, x)])
                    /\ ~stat_fails(f.R[Append(n, x)])
        common_dirs == {x \in common :
                            ok(x) /\ a_type(x) = b_type(x)
                                  /\ a_type(x) = S_IFDIR}
        common_files == {x \in common :
                            ok(x) /\ a_type(x) = b_type(x)
                                  /\ a_type(x) = S_IFREG}
        common_funny == {x \in common : ~ok(x) \/ a_type(x) # b_type(x)}
        res == cmpfiles(f, n, common_files)
    IN  [left_only |-> phase1_left_only(left_list, right_list),
         right_only |-> phase1_right_only(left_list, right_list),
         common_funny |-> common_funny,
         same_files |-> res[0],
         diff_files |-> res[1],
         funny_files |-> res[2],
         subdirs |-> {Append(n, x) : x \in common_dirs}]

\* os.listdir of either side fails: the directory is not there
ListingFails(f, n) == ~isdir(f.L, n) \/ ~isdir(f.R, n)

\* ------------------------------------------------------------ path joiners
ParentJoiner(side, parent_path, child_path) ==
    <<side, Append(parent_path, child_path)>>

ParentPairJoiner(parent_path, child_path) ==
    <<ParentJoiner("L", parent_path, child_path),
      ParentJoiner("R", parent_path, child_path)>>

\* ----------------------------------------------------------------- actions
\* a do_copy that copies a file's bytes and not its times (shutil.copy)
copy_effect_without_times(f, p) ==
    IF isdir(f.L, p)
    THEN [f EXCEPT !.R = [q \in Paths |->
                            IF ~Under(p, q) THEN f.R[q]
                            ELSE IF f.L[q] = Lnk THEN NoEnt ELSE f.L[q]]]
    ELSE [f EXCEPT !.R[p] = <<f.L[p][1], f.L[p][2], 0>>]

\* shutil.copytree / shutil.copy2 on the backup side: copytree copies what
\* the links of the subtree point to, so nothing for a dangling one
copy_effect(f, p) ==
    IF isdir(f.L, p)
    THEN [f EXCEPT !.R = [q \in Paths |->
                            IF ~Under(p, q) THEN f.R[q]
                            ELSE IF f.L[q] = Lnk THEN NoEnt ELSE f.L[q]]]
    ELSE [f EXCEPT !.R[p] = f.L[p]]

\* the subtree of the source has a dangling link
dangling(f, p) == \E q \in Paths : Under(p, q) /\ f.L[q] = Lnk

\* copytree refuses an existing destination and raises at its end for the
\* dangling links it met, copy2 needs a source it can open
copy_possible(f, p) ==
    IF isdir(f.L, p) THEN ~lexists(f.R, p) /\ ~dangling(f, p)
    ELSE exists(f.L, p) /\ ~isdir(f.R, p)

\* the backup side after a do_copy that raised: copytree has copied the rest
\* of the subtree when what it raises is the error of a dangling link
copy_raised_effect(f, p) ==
    IF isdir(f.L, p) /\ ~lexists(f.R, p) /\ dangling(f, p)
    THEN copy_effect(f, p)
    ELSE f

\* shutil.rmtree / os.remove on the backup side
remove_effect(f, p) ==
    IF isdir(f.R, p)
    THEN [f EXCEPT !.R = [q \in Paths |->
                            IF Under(p, q) THEN NoEnt ELSE f.R[q]]]
    ELSE [f EXCEPT !.R[p] = NoEnt]

remove_possible(f, p) == lexists(f.R, p)

\* a wrapper that logs and raises again
safe_action_reraising(raised, continue_at) ==
    IF raised THEN "raised_action" ELSE continue_at

\* the wrapper of safe_action: where control goes after func, raised or not
safe_action(raised, continue_at) == continue_at

\* a check_and_create_folder that does not look at dry_run
check_and_create_folder_no_dry_run(f, dry) ==
    IF ~isdir(f.R, Root) THEN [f EXCEPT !.R[Root] = DirEnt] ELSE f

\* the file system after check_and_create_folder returned (os.mkdir of the
\* target root is taken to succeed)
check_and_create_folder(f, dry) ==
    IF ~isdir(f.R, Root)
    THEN IF dry THEN f ELSE [f EXCEPT !.R[Root] = DirEnt]
    ELSE f

\* ------------------------------------------------------------------- state
VARIABLES
    fs,                 \* the two trees, [L |-> source, R |-> backup]
    fs0,                \* the trees when this run started
    dry_run,            \* _ARGS.dry_run
    run,                \* which run of the script this is: the script is
                        \* run twice in succession
    prev,               \* what the previous run was like: clean (no wait
                        \* timed out, no action failed) and work (it called
                        \* do_copy or do_remove)
    mpc,                \* where the main thread is
    tpc,                \* where the process_diff call of each node is
    cache,              \* the computed attributes of each dircmp object
    pool_lock,          \* the node whose process_diff holds the lock
    all_diff_files,     \* the accumulator of collect_updates
    async_result_lot,   \* the queue of (path, future)
    pool_shutdown,      \* pool.shutdown was called
    unput,              \* the future submitted at line 193 and not yet put
                        \* in the queue by line 195
    cur,                \* the entry the driver took from the queue
    result_lot,         \* the paths whose result the driver received
    timed_out,          \* the paths the driver logged a timeout for
    returned,           \* what collect_updates returned
    pending,            \* the part of it the copy loop has not reached
    copied,             \* bag of the pairs do_copy was called with
    diff_stack,         \* the stack of collect_removals
    all_removed_files,  \* the list built by collect_removals
    rm_pending,         \* the part of it the remove loop has not reached
    removed,            \* bag of the paths do_remove was called with
    failed,             \* the targets whose action raised
    file_a,             \* the entry at the first path handed to _cmp
    file_b,             \* the entry at the second path handed to _cmp
    cmp_result          \* what that call of cmp and of _cmp gave

cmpVars == <<file_a, file_b, cmp_result>>

vars == <<cmpVars, fs, fs0, dry_run, run, prev, mpc, tpc, cache, pool_lock,
          all_diff_files, async_result_lot, pool_shutdown, unput, cur,
          result_lot,
          timed_out, returned, pending, copied, diff_stack,
          all_removed_files, rm_pending, removed, failed>>

fsVars == <<fs, fs0, dry_run, run, prev, cmpVars>>
walkVars == <<tpc, cache, pool_lock, all_diff_files, async_result_lot,
              pool_shutdown, unput>>
drainVars == <<cur, result_lot, timed_out, returned>>
copyVars == <<pending, copied>>
rmVars == <<diff_stack, all_removed_files, rm_pending, removed>>

Free == <<"free">>
\* no future is between submit and put
NoFuture == <<"none">>
NoCache == [unset |-> TRUE]

\* the state of a freshly constructed BackupShallowDiff and of the loops
FreshRun ==
    /\ mpc = "check"
    /\ tpc = [n \in Nodes |-> "idle"]
    /\ cache = [n \in Nodes |-> NoCache]
    /\ pool_lock = Free
    /\ all_diff_files = <<>>
    /\ async_result_lot = <<>>
    /\ pool_shutdown = FALSE
    /\ unput = NoFuture
    /\ cur = Root
    /\ result_lot = {}
    /\ timed_out = {}
    /\ returned = <<>>
    /\ pending = <<>>
    /\ copied = EmptyBag
    /\ diff_stack = <<>>
    /\ all_removed_files = <<>>
    /\ rm_pending = <<>>
    /\ removed = EmptyBag
    /\ failed = {}

\* no call of the comparator is looked at
NotCalled == [called |-> FALSE, raised |-> FALSE, outcome |-> FALSE,
              index |-> 0]

Init ==
    /\ file_a = NoEnt
    /\ file_b = NoEnt
    /\ cmp_result = NotCalled
    /\ \E l \in Trees, r \in Trees :
        /\ l[Root] = DirEnt
        /\ fs = [L |-> l, R |-> r]
    /\ fs0 = fs
    /\ dry_run \in BOOLEAN
    /\ run = 1
    /\ prev = [clean |-> FALSE, work |-> FALSE]
    /\ FreshRun

\* ------------------------------------------------------------ process_diff
\* a call of process_diff that has started and not ended
Executing(n) == tpc[n] \in {"list", "acq1", "cs1", "acq2", "cs2"}
\* the workers that have taken a work item and not ended it
BusyWorkers == Cardinality({n \in Nodes \ {Root} : Executing(n)})

\* a file_chain that takes the names of common_funny too
LocalUpdates_with_funny(n, c) ==
    {ParentPairJoiner(n, x) :
        x \in c.left_only \cup c.diff_files \cup c.common_funny}

\* file_chain of line 184, joined by ParentPairJoiner (line 186)
LocalUpdates(n, c) ==
    {ParentPairJoiner(n, x) : x \in c.left_only \cup c.diff_files}

\* The root's process_diff runs in the main thread (line 158): when it ends,
\* the main thread goes on at the drain loop, or the exception is the run's.
AfterVisit(n, outcome) ==
    IF n = Root
    THEN IF outcome = "done" THEN "drain" ELSE "raised_root"
    ELSE mpc

\* The call starts: in the main thread for the root (line 158), for another
\* node when a worker of the pool is free to take its work item.
\* Line 184: the first access to diff_item.left_only and diff_item.diff_files
\* lists and stats both directories; an OSError ends the call.
TaskList(n) ==
    /\ IF n = Root THEN tpc[n] = "list"
       ELSE tpc[n] = "queued" /\ BusyWorkers < PoolWidth
    /\ \E readable \in BOOLEAN :
        IF cache[n] # NoCache
        THEN /\ readable
             /\ tpc' = [tpc EXCEPT ![n] = "acq1"]
             /\ UNCHANGED <<cache, mpc>>
        ELSE IF readable /\ ~ListingFails(fs, n)
        THEN /\ cache' = [cache EXCEPT ![n] = DirCmp(fs, n)]
             /\ tpc' = [tpc EXCEPT ![n] = "acq1"]
             /\ UNCHANGED mpc
        ELSE /\ tpc' = [tpc EXCEPT ![n] = "raised"]
             /\ mpc' = AfterVisit(n, "raised")
             /\ UNCHANGED cache
    /\ UNCHANGED <<fsVars, pool_lock, all_diff_files, async_result_lot,
                   pool_shutdown, unput, drainVars, copyVars, rmVars, failed>>

\* line 185
TaskAcquire1(n) ==
    /\ tpc[n] = "acq1"
    /\ pool_lock = Free
    /\ pool_lock' = n
    /\ tpc' = [tpc EXCEPT ![n] = "cs1"]
    /\ UNCHANGED <<fsVars, mpc, cache, all_diff_files, async_result_lot,
                   pool_shutdown, unput, drainVars, copyVars, rmVars, failed>>

\* a first critical section without its release (line 187)
TaskAppend_without_release(n) ==
    /\ tpc[n] = "cs1"
    /\ all_diff_files' = Append(all_diff_files,
                            [node |-> n, pairs |-> LocalUpdates(n, cache[n])])
    /\ IF cache[n].subdirs # {}
       THEN /\ tpc' = [tpc EXCEPT ![n] = "acq2"]
            /\ UNCHANGED mpc
       ELSE /\ tpc' = [tpc EXCEPT ![n] = "done"]
            /\ mpc' = AfterVisit(n, "done")
    /\ UNCHANGED <<fsVars, cache, pool_lock, async_result_lot,
                   pool_shutdown, unput, drainVars, copyVars, rmVars, failed>>

\* lines 186-188, and line 198 when there are no subdirs
TaskAppend(n) ==
    /\ tpc[n] = "cs1"
    /\ all_diff_files' = Append(all_diff_files,
                            [node |-> n, pairs |-> LocalUpdates(n, cache[n])])
    /\ pool_lock' = Free
    /\ IF cache[n].subdirs # {}
       THEN /\ tpc' = [tpc EXCEPT ![n] = "acq2"]
            /\ UNCHANGED mpc
       ELSE /\ tpc' = [tpc EXCEPT ![n] = "done"]
            /\ mpc' = AfterVisit(n, "done")
    /\ UNCHANGED <<fsVars, cache, async_result_lot, pool_shutdown, unput,
                   drainVars, copyVars, rmVars, failed>>

\* line 190
TaskAcquire2(n) ==
    /\ tpc[n] = "acq2"
    /\ pool_lock = Free
    /\ pool_lock' = n
    /\ tpc' = [tpc EXCEPT ![n] = "cs2"]
    /\ UNCHANGED <<fsVars, mpc, cache, all_diff_files, async_result_lot,
                   pool_shutdown, unput, drainVars, copyVars, rmVars, failed>>

\* a loop that submits again the subdirs no worker has taken yet
NotSubmitted_submitting_again(n) ==
    {c \in cache[n].subdirs : tpc[c] \in {"idle", "queued"}}

\* the subdirs the loop of line 191 has not reached
NotSubmitted(n) == {c \in cache[n].subdirs : tpc[c] = "idle"}

\* line 193, one iteration of the loop: submit the child; submit raises
\* RuntimeError once the pool is shut down, and the call ends with the lock
\* held
TaskSubmit(n) ==
    /\ tpc[n] = "cs2"
    /\ unput = NoFuture
    /\ \E c \in NotSubmitted(n) :
        IF pool_shutdown
        THEN /\ tpc' = [tpc EXCEPT ![n] = "raised"]
             /\ mpc' = AfterVisit(n, "raised")
             /\ UNCHANGED unput
        ELSE /\ tpc' = [tpc EXCEPT ![c] = "queued"]
             /\ unput' = c
             /\ UNCHANGED mpc
    /\ UNCHANGED <<fsVars, cache, pool_lock, all_diff_files,
                   async_result_lot, pool_shutdown, drainVars, copyVars,
                   rmVars, failed>>

\* a loop that does not put the future in the queue
TaskPut_forgotten(n) ==
    /\ tpc[n] = "cs2"
    /\ unput # NoFuture
    /\ unput' = NoFuture
    /\ UNCHANGED <<fsVars, mpc, tpc, cache, pool_lock, all_diff_files,
                   async_result_lot, pool_shutdown, drainVars, copyVars,
                   rmVars, failed>>

\* lines 194-195 of the same iteration: put (path, future) in the queue
TaskPut(n) ==
    /\ tpc[n] = "cs2"
    /\ unput # NoFuture
    /\ async_result_lot' = Append(async_result_lot, unput)
    /\ unput' = NoFuture
    /\ UNCHANGED <<fsVars, mpc, tpc, cache, pool_lock, all_diff_files,
                   pool_shutdown, drainVars, copyVars, rmVars, failed>>

\* lines 196-198
TaskRelease2(n) ==
    /\ tpc[n] = "cs2"
    /\ NotSubmitted(n) = {}
    /\ unput = NoFuture
    /\ pool_lock' = Free
    /\ tpc' = [tpc EXCEPT ![n] = "done"]
    /\ mpc' = AfterVisit(n, "done")
    /\ UNCHANGED <<fsVars, cache, all_diff_files, async_result_lot,
                   pool_shutdown, unput, drainVars, copyVars, rmVars, failed>>

\* --------------------------------------------------------- collect_updates
\* line 351, then lines 353-158: the target root, the diff object, and the
\* call of process_diff for the root
CheckAndCreate ==
    /\ mpc = "check"
    /\ fs' = check_and_create_folder(fs, dry_run)
    /\ mpc' = "root"
    /\ tpc' = [tpc EXCEPT ![Root] = "list"]
    /\ UNCHANGED <<fs0, dry_run, run, prev, cmpVars, cache, pool_lock,
                   all_diff_files, async_result_lot, pool_shutdown, unput,
                   drainVars, copyVars, rmVars, failed>>

\* line 161, queue empty: the loop ends
DrainEmpty ==
    /\ mpc = "drain"
    /\ async_result_lot = <<>>
    /\ mpc' = "shutdown"
    /\ UNCHANGED <<fsVars, walkVars, drainVars, copyVars, rmVars, failed>>

\* lines 161-162, queue not empty
DrainGet ==
    /\ mpc = "drain"
    /\ async_result_lot # <<>>
    /\ cur' = Head(async_result_lot)
    /\ async_result_lot' = Tail(async_result_lot)
    /\ mpc' = "wait"
    /\ UNCHANGED <<fsVars, tpc, cache, pool_lock, all_diff_files,
                   pool_shutdown, unput, result_lot, timed_out, returned,
                   copyVars, rmVars, failed>>

\* a wait that is over as soon as a worker has taken the call
result_ready_when_started(n) ==
    tpc[n] \in {"acq1", "cs1", "acq2", "cs2", "done"}

\* Future.result returns the value of a call that returned
result_ready(n) == tpc[n] = "done"

\* line 164, the future has a result
WaitResult ==
    /\ mpc = "wait"
    /\ result_ready(cur)
    /\ result_lot' = result_lot \cup {cur}
    /\ cur' = Root
    /\ mpc' = "drain"
    /\ UNCHANGED <<fsVars, walkVars, timed_out, returned, copyVars, rmVars,
                   failed>>

\* line 164, the call raised: result() raises the same exception, which is
\* not a FutureTimeoutError
WaitRaises ==
    /\ mpc = "wait"
    /\ tpc[cur] = "raised"
    /\ mpc' = "raised_wait"
    /\ UNCHANGED <<fsVars, walkVars, cur, result_lot, timed_out, returned,
                   copyVars, rmVars, failed>>

\* a handler that leaves the loop at the first timeout
after_timeout_break == "shutdown"

\* lines 165-166: the handler logs a warning and the loop goes on
after_timeout == "drain"

\* lines 165-166, 30 seconds passed and the call has not ended
WaitTimeout ==
    /\ mpc = "wait"
    /\ tpc[cur] \notin {"done", "raised"}
    /\ Cardinality(timed_out) < MaxTimeouts
    /\ timed_out' = timed_out \cup {cur}
    /\ cur' = Root
    /\ mpc' = after_timeout
    /\ UNCHANGED <<fsVars, walkVars, result_lot, returned, copyVars, rmVars,
                   failed>>

\* line 168
Shutdown ==
    /\ mpc = "shutdown"
    /\ pool_shutdown' = TRUE
    /\ mpc' = "return"
    /\ UNCHANGED <<fsVars, tpc, cache, pool_lock, all_diff_files,
                   async_result_lot, unput, drainVars, copyVars, rmVars,
                   failed>>

RECURSIVE DropEmpty(_)
\* a chain skips the iterators that have nothing left
DropEmpty(seq) ==
    IF seq = <<>> THEN <<>>
    ELSE IF Head(seq) = {} THEN DropEmpty(Tail(seq))
    ELSE seq

\* line 172: the chain is made of the iterators that are in the list now
Return ==
    /\ mpc = "return"
    /\ returned' = all_diff_files
    /\ pending' = DropEmpty([i \in 1..Len(all_diff_files) |->
                                  all_diff_files[i].pairs])
    /\ mpc' = "copy"
    /\ UNCHANGED <<fsVars, walkVars, cur, result_lot, timed_out, copied,
                   rmVars, failed>>

\* ------------------------------------------------------- the loops of main
\* a loop that stops one item short
updates_exhausted_one_short(rest) ==
    rest = <<>> \/ (Len(rest) = 1 /\ Cardinality(rest[1]) = 1)

\* the for loop of line 355 has no item left
updates_exhausted(rest) == rest = <<>>

\* lines 355-360, one iteration: the next pair of the chain (the order of
\* the names of one directory is the listing's, any order)
CopyStep ==
    /\ mpc = "copy"
    /\ ~updates_exhausted(pending)
    /\ \E pr \in Head(pending) :
        /\ pending' = DropEmpty(<<Head(pending) \ {pr}>> \o Tail(pending))
        /\ IF dry_run
           THEN UNCHANGED <<fs, copied, failed, mpc>>
           ELSE /\ copied' = copied (+) SetToBag({pr})
                /\ \E ok \in BOOLEAN :
                    /\ ok => copy_possible(fs, pr[2][2])
                    /\ fs' = IF ok THEN copy_effect(fs, pr[2][2])
                             ELSE copy_raised_effect(fs, pr[2][2])
                    /\ failed' = IF ok THEN failed
                                 ELSE failed \cup {pr[2]}
                    /\ mpc' = safe_action(~ok, "copy")
    /\ UNCHANGED <<fs0, dry_run, run, prev, cmpVars, walkVars, drainVars,
                   rmVars>>

\* line 362: the copy loop is over, collect_removals starts (lines 204-205)
CopyLoopEnd ==
    /\ mpc = "copy"
    /\ updates_exhausted(pending)
    /\ diff_stack' = <<Root>>
    /\ all_removed_files' = <<>>
    /\ mpc' = "rm_collect"
    /\ UNCHANGED <<fsVars, walkVars, drainVars, copyVars, rm_pending,
                   removed, failed>>

RECURSIVE SeqOf(_)
\* the values of a dict, in its order
SeqOf(set) ==
    IF set = {} THEN <<>>
    ELSE LET x == CHOOSE y \in set : TRUE
         IN  <<x>> \o SeqOf(set \ {x})

\* a collector that joins the names to the source path
LocalRemovals_joined_left(n, c) ==
    {ParentJoiner("L", n, x) : x \in c.right_only}

\* line 208
LocalRemovals(n, c) == {ParentJoiner("R", n, x) : x \in c.right_only}

\* lines 206-211, one iteration; diff_cursor.right_only is computed now if
\* no task computed it, and an OSError of the listing is the run's. The
\* loop ends with the stack empty and the list is returned.
RmCollectStep ==
    /\ mpc = "rm_collect"
    /\ diff_stack # <<>>
    /\ LET diff_cursor == diff_stack[Len(diff_stack)]
           popped == SubSeq(diff_stack, 1, Len(diff_stack) - 1)
       IN  \E readable \in BOOLEAN :
            IF cache[diff_cursor] = NoCache
               /\ (~readable \/ ListingFails(fs, diff_cursor))
            THEN /\ mpc' = "raised_removals"
                 /\ diff_stack' = popped
                 /\ UNCHANGED <<cache, all_removed_files, rm_pending>>
            ELSE /\ cache[diff_cursor] # NoCache => readable
                 /\ LET c == IF cache[diff_cursor] = NoCache
                             THEN DirCmp(fs, diff_cursor)
                             ELSE cache[diff_cursor]
                        all == Append(all_removed_files,
                                      LocalRemovals(diff_cursor, c))
                        stack == popped \o SeqOf(c.subdirs)
                    IN  /\ cache' = [cache EXCEPT ![diff_cursor] = c]
                        /\ all_removed_files' = all
                        /\ diff_stack' = stack
                        /\ IF stack = <<>>
                           THEN /\ rm_pending' = DropEmpty(all)
                                /\ mpc' = "remove"
                           ELSE UNCHANGED <<rm_pending, mpc>>
    /\ UNCHANGED <<fsVars, tpc, pool_lock, all_diff_files, async_result_lot,
                   pool_shutdown, unput, drainVars, copyVars, removed, failed>>

\* lines 362-367, one iteration
RemoveStep ==
    /\ mpc = "remove"
    /\ rm_pending # <<>>
    /\ \E doomed \in Head(rm_pending) :
        /\ rm_pending' = DropEmpty(<<Head(rm_pending) \ {doomed}>>
                                    \o Tail(rm_pending))
        /\ IF dry_run
           THEN UNCHANGED <<fs, removed, failed, mpc>>
           ELSE /\ removed' = removed (+) SetToBag({doomed})
                /\ \E ok \in BOOLEAN :
                    /\ ok => remove_possible(fs, doomed[2])
                    /\ fs' = IF ok THEN remove_effect(fs, doomed[2]) ELSE fs
                    /\ failed' = IF ok THEN failed
                                 ELSE failed \cup {doomed}
                    /\ mpc' = safe_action(~ok, "remove")
    /\ UNCHANGED <<fs0, dry_run, run, prev, cmpVars, walkVars, drainVars,
                   copyVars, diff_stack, all_removed_files>>

\* line 369
RemoveLoopEnd ==
    /\ mpc = "remove"
    /\ rm_pending = <<>>
    /\ mpc' = "done"
    /\ UNCHANGED <<fsVars, walkVars, drainVars, copyVars, rmVars, failed>>

\* The script has reached its last line (the interpreter joins the pool's
\* threads before it exits) and is started again on the same two directories.
\* A dry run leaves the two trees as they were, so the run after it is a
\* first run again: the second run is looked at after a run that was not dry.
RunAgain ==
    /\ mpc = "done"
    /\ \A n \in Nodes : ~Executing(n) /\ tpc[n] # "queued"
    /\ run = 1
    /\ ~dry_run
    /\ run' = run + 1
    /\ prev' = [clean |-> (timed_out = {} /\ failed = {}),
                 work |-> (copied # EmptyBag \/ removed # EmptyBag)]
    /\ fs0' = fs
    /\ mpc' = "check"
    /\ tpc' = [n \in Nodes |-> "idle"]
    /\ cache' = [n \in Nodes |-> NoCache]
    /\ pool_lock' = Free
    /\ all_diff_files' = <<>>
    /\ async_result_lot' = <<>>
    /\ pool_shutdown' = FALSE
    /\ unput' = NoFuture
    /\ cur' = Root
    /\ result_lot' = {}
    /\ timed_out' = {}
    /\ returned' = <<>>
    /\ pending' = <<>>
    /\ copied' = EmptyBag
    /\ diff_stack' = <<>>
    /\ all_removed_files' = <<>>
    /\ rm_pending' = <<>>
    /\ removed' = EmptyBag
    /\ failed' = {}
    /\ UNCHANGED <<fs, dry_run, cmpVars>>

Next ==
    \/ \E n \in Nodes : TaskList(n)
    \/ \E n \in Nodes : TaskAcquire1(n)
    \/ \E n \in Nodes : TaskAppend(n)
    \/ \E n \in Nodes : TaskAcquire2(n)
    \/ \E n \in Nodes : TaskSubmit(n)
    \/ \E n \in Nodes : TaskPut(n)
    \/ \E n \in Nodes : TaskRelease2(n)
    \/ CheckAndCreate
    \/ DrainEmpty
    \/ DrainGet
    \/ WaitResult
    \/ WaitRaises
    \/ WaitTimeout
    \/ Shutdown
    \/ Return
    \/ CopyStep
    \/ CopyLoopEnd
    \/ RmCollectStep
    \/ RemoveStep
    \/ RemoveLoopEnd
    \/ RunAgain

Spec == Init /\ [][Next]_vars

\* The runs on trees with a dangling link or an ignored name.
InitLinks ==
    /\ file_a = NoEnt
    /\ file_b = NoEnt
    /\ cmp_result = NotCalled
    /\ \E l \in TreesLinks, r \in TreesLinks :
        /\ l[Root] = DirEnt
        /\ \/ Lnk \in {l[<<"a", "g">>], r[<<"a", "g">>]}
           \/ l[<<"tags">>] # NoEnt
           \/ r[<<"tags">>] # NoEnt
        /\ fs = [L |-> l, R |-> r]
    /\ fs0 = fs
    /\ dry_run \in BOOLEAN
    /\ run = 1
    /\ prev = [clean |-> FALSE, work |-> FALSE]
    /\ FreshRun

SpecLinks == InitLinks /\ [][Next]_vars

\* The runs on trees with every directory on both sides (the backup holds
\* a/b/f and no a/g, the source any files), under the fairness
\* of a scheduler that lets some thread that can take a step take one: the
\* main thread and the workers are threads of one process, and a wait on a
\* future ends with its result, its exception or the timeout.
InitFair ==
    /\ file_a = NoEnt
    /\ file_b = NoEnt
    /\ cmp_result = NotCalled
    /\ \E l \in Trees, r \in Trees :
        /\ \A n \in Nodes : l[n] = DirEnt /\ r[n] = DirEnt
        /\ r[<<"a", "b", "f">>] = <<S_IFREG, 1, 1>>
        /\ r[<<"a", "g">>] = NoEnt
        /\ fs = [L |-> l, R |-> r]
    /\ fs0 = fs
    /\ dry_run = FALSE
    /\ run = 1
    /\ prev = [clean |-> FALSE, work |-> FALSE]
    /\ FreshRun

FairSpec == InitFair /\ [][Next]_vars /\ WF_vars(Next)

\* ---------------------------------------------------- the comparator alone
\* what os.stat can find at a path: nothing, a dangling link, a regular file
\* or a directory of any size and time
SigEnts ==
    {NoEnt, Lnk} \cup {<<k, sz, mt>> : k \in {S_IFREG, S_IFDIR},
                                       sz \in 1..MaxSize, mt \in 1..MaxMtime}

\* the two trees with nothing but their roots
BareTree == [p \in Paths |-> IF p = Root THEN DirEnt ELSE NoEnt]

InitCmp ==
    /\ file_a \in SigEnts
    /\ file_b \in SigEnts
    /\ cmp_result = NotCalled
    /\ fs = [L |-> BareTree, R |-> BareTree]
    /\ fs0 = fs
    /\ dry_run = TRUE
    /\ run = 1
    /\ prev = [clean |-> FALSE, work |-> FALSE]
    /\ FreshRun

\* one call _cmp(a, b, sh, abs, cmp) of lines 84-89, and the call of cmp it
\* makes (lines 109-120): os.stat raises for an entry that is not there, and
\* _cmp turns the OSError into 2
CmpCall ==
    /\ ~cmp_result.called
    /\ LET raised == stat_fails(file_a) \/ stat_fails(file_b)
       IN  cmp_result' = [called |-> TRUE,
                          raised |-> raised,
                          outcome |-> ~raised /\ cmp(file_a, file_b),
                          index |-> _cmp(file_a, file_b)]
    /\ UNCHANGED <<file_a, file_b, fs, fs0, dry_run, run, prev, mpc,
                   walkVars, drainVars, copyVars, rmVars, failed>>

NextCmp == CmpCall

SpecCmp == InitCmp /\ [][NextCmp]_vars

\* ------------------------------------------------------------------ claims
\* collect_updates has returned in this run
PostReturn == mpc \in {"copy", "rm_collect", "remove", "done",
                       "raised_removals"}

RECURSIVE BagOfSeq(_)
\* the items of a sequence of sets, with their multiplicity
BagOfSeq(seq) ==
    IF seq = <<>> THEN EmptyBag
    ELSE SetToBag(Head(seq)) (+) BagOfSeq(Tail(seq))

ReturnedPairs == BagOfSeq([i \in 1..Len(returned) |-> returned[i].pairs])
ReturnedNodes == {returned[i].node : i \in 1..Len(returned)}
CollectedRemovals == BagOfSeq(all_removed_files)

RECURSIVE WalkUpdates(_, _)
\* the update pairs a single-threaded recursive walk of the tree collects
WalkUpdates(f, n) ==
    LET c == DirCmp(f, n)
    IN  {ParentPairJoiner(n, x) : x \in c.left_only \cup c.diff_files}
        \cup UNION {WalkUpdates(f, k) : k \in c.subdirs}

\* the trees the walk of this run looks at
WalkedFs == check_and_create_folder(fs0, dry_run)

\* C1: when no wait timed out and no task raised, collect_updates returns
\* exactly the pairs (left/name, right/name) for the names in left_only and
\* diff_files of every node of the tree, each once: what a single-threaded
\* walk collects.
C1_Completeness ==
    (PostReturn /\ timed_out = {} /\ \A n \in Nodes : tpc[n] # "raised")
        => ReturnedPairs = SetToBag(WalkUpdates(WalkedFs, Root))

C1_Witness ==
    /\ PostReturn
    /\ timed_out = {}
    /\ result_lot = {<<"a">>, <<"a", "b">>, <<"d">>}
    /\ \E i \in 1..Len(returned) :
        returned[i].node = <<"a", "b">> /\ returned[i].pairs # {}
    /\ \E i \in 1..Len(returned) :
        returned[i].node = <<"a">> /\ returned[i].pairs # {}

\* C2: when collect_updates has returned, no submitted task is waiting for a
\* worker or executing, and no registered future is left in the queue, in
\* runs with a timeout too.
C2_QuiescenceAtReturn ==
    PostReturn =>
        /\ async_result_lot = <<>>
        /\ \A n \in Nodes : ~Executing(n) /\ tpc[n] # "queued"

\* C3: no do_remove is called while an update pair returned by
\* collect_updates has not been handed to do_copy.
C3_TwoPhaseBarrier == removed # EmptyBag => pending = <<>>

C3_Witness ==
    /\ removed # EmptyBag
    /\ copied # EmptyBag
    /\ rm_pending # <<>>

\* C4: a listing failure in the task of a directory below the root never
\* leaves collect_updates as an exception.
C4_SubtreeFailureIsolated == mpc # "raised_wait"

C6_LockDiscipline ==
    [][run' = run =>
        /\ (Len(async_result_lot') < Len(async_result_lot)
               \/ returned' # returned) => pool_lock = Root
        /\ (Len(async_result_lot') > Len(async_result_lot)
               \/ Len(all_diff_files') > Len(all_diff_files))
               => pool_lock # Free]_vars

\* C7: when a do_copy or do_remove has raised, the main thread is still in
\* its loops (or past them), and at the end of the run every returned pair
\* was handed to do_copy once and every collected path to do_remove once.
C7_FaultIsolation ==
    /\ failed # {} => mpc \in {"copy", "rm_collect", "remove", "done",
                               "raised_removals"}
    /\ (mpc = "done" /\ ~dry_run) =>
        /\ copied = ReturnedPairs
        /\ removed = CollectedRemovals

C7_Witness ==
    /\ mpc = "done"
    /\ \E pr \in BagToSet(copied) : pr[2] \in failed
    /\ BagCardinality(copied) >= 2
    /\ BagCardinality(removed) >= 1

\* C8: no target path is both the target of a returned update pair and a
\* collected removal path.
C8_Disjointness ==
    {pr[2] : pr \in BagToSet(ReturnedPairs)}
        \cap BagToSet(CollectedRemovals) = {}

C8_Witness ==
    /\ mpc = "remove"
    /\ \E pr \in BagToSet(ReturnedPairs), t \in BagToSet(CollectedRemovals) :
        Parent(pr[2][2]) = Parent(t[2])

\* C9: in a dry run do_copy and do_remove are never called and the two
\* trees are what they were when the run started.
C9_DryRunPurity ==
    dry_run => (fs = fs0 /\ copied = EmptyBag /\ removed = EmptyBag)

C9_Witness ==
    /\ dry_run
    /\ mpc = "done"
    /\ ReturnedPairs # EmptyBag
    /\ CollectedRemovals # EmptyBag

AmbiguousIn(f, p) ==
    /\ p # Root
    /\ lexists(f.L, p)
    /\ lexists(f.R, p)
    /\ \/ stat_fails(f.L[p])
       \/ stat_fails(f.R[p])
       \/ f.L[p][1] # f.R[p][1]

\* every pair a task has appended in this run
AccumulatedPairs ==
    UNION {all_diff_files[i].pairs : i \in 1..Len(all_diff_files)}

\* C11: an entry that is ambiguous when the run starts (it is there on both
\* sides and os.stat of one side fails, or the two sides are of different
\* kinds) is in no update pair a task appends and in no removal path
\* collect_removals collects, and the run leaves the backup's entry as it is.
C11_AmbiguousNeverActedOn ==
    \A p \in Paths :
        AmbiguousIn(WalkedFs, p) =>
            /\ <<<<"L", p>>, <<"R", p>>>> \notin AccumulatedPairs
            /\ <<"R", p>> \notin BagToSet(CollectedRemovals)
            /\ fs.R[p] = fs0.R[p]

C11_Witness ==
    /\ mpc = "done"
    /\ ~dry_run
    /\ fs0.L[<<"a", "g">>][1] = S_IFREG
    /\ fs0.R[<<"a", "g">>] = Lnk
    /\ copied # EmptyBag

\* C12: a call of the comparator gives "same" (index 0) only for two regular
\* files of equal signature, never for a pair with an entry that is not a
\* regular file; it gives "ambiguous" (index 2) for two entries of different
\* kinds and for an entry os.stat fails on, and the OSError does not leave
\* _cmp.
C12_ComparatorVerdict ==
    cmp_result.called =>
        /\ cmp_result.index = 0 =>
                /\ file_a[1] = S_IFREG
                /\ file_b[1] = S_IFREG
                /\ _sig(file_a) = _sig(file_b)
        /\ (stat_fails(file_a) \/ stat_fails(file_b)
                \/ file_a[1] # file_b[1]) => cmp_result.index = 2
        /\ cmp_result.index \in 0..2

\* what of C12 the code does: regular files of equal signature are "same",
\* regular files of different signatures "different", a failing os.stat
\* "ambiguous"
C12_RegularFilesOnly ==
    cmp_result.called =>
        /\ (file_a[1] = S_IFREG /\ file_b[1] = S_IFREG) =>
                cmp_result.index = IF _sig(file_a) = _sig(file_b) THEN 0 ELSE 1
        /\ (stat_fails(file_a) \/ stat_fails(file_b)) => cmp_result.index = 2

\* the six sets of a node: left_only, right_only, same_files, diff_files,
\* the ambiguous names (common_funny and funny_files) and the keys of subdirs
PartsOf(c) ==
    <<c.left_only, c.right_only, c.same_files, c.diff_files,
      c.common_funny \cup c.funny_files, {Name(k) : k \in c.subdirs}>>

\* the names are in exactly one of the six sets of the node, and the keys
\* of subdirs are the names that are directories on both sides
PartitionOf(f, n, names) ==
    LET parts == PartsOf(DirCmp(f, n))
    IN  /\ \A x \in names :
                Cardinality({i \in 1..6 : x \in parts[i]}) = 1
        /\ parts[6] = {x \in names : isdir(f.L, Append(n, x))
                                        /\ isdir(f.R, Append(n, x))}

\* C13: at every directory pair both sides of which can be listed, every
\* name present on either side is in exactly one of left_only, right_only,
\* same_files, diff_files, the ambiguous names and the keys of subdirs, and
\* the keys of subdirs are exactly the names that are directories on both
\* sides.
C13_Partition ==
    \A n \in Nodes :
        ~ListingFails(fs, n) =>
            PartitionOf(fs, n, listdir(fs.L, n) \cup listdir(fs.R, n))

\* what of C13 the code does: the same, for the names that are not in
\* filecmp.DEFAULT_IGNORES
C13_PartitionOfKeptNames ==
    \A n \in Nodes :
        ~ListingFails(fs, n) =>
            PartitionOf(fs, n, _filter(listdir(fs.L, n) \cup listdir(fs.R, n),
                                       DEFAULT_IGNORES))

\* the nodes of the diff tree: the directories that are there on both sides
InTree(f, n) == isdir(f.L, n) /\ isdir(f.R, n)

\* right/name for every name of right_only of every node: the entries of
\* the backup that are in a directory of the tree, have no counterpart in the
\* source and are not ignored by the listing
ExpectedRemovals(f) ==
    {ParentJoiner("R", Parent(p), Name(p)) :
        p \in {q \in Paths \ {Root} :
                    /\ InTree(f, Parent(q))
                    /\ lexists(f.R, q)
                    /\ ~lexists(f.L, q)
                    /\ Name(q) \notin DEFAULT_IGNORES}}

\* C14: while collect_removals runs, the nodes popped and the nodes on the
\* stack are together no more than the nodes of the tree (so the loop ends
\* after as many iterations as the tree has nodes) and no node is on the
\* stack twice; when it has returned it has popped as many nodes as the tree
\* has and its list holds right/name once for every name in right_only of
\* every node and nothing else, whether or not a wait of the walker timed
\* out and whichever nodes the walker's tasks reached.
C14_RemovalsComplete ==
    /\ mpc = "rm_collect" =>
        /\ diff_stack # <<>>
        /\ Len(all_removed_files) + Len(diff_stack)
                <= Cardinality({n \in Nodes : InTree(WalkedFs, n)})
        /\ \A i, j \in 1..Len(diff_stack) :
                diff_stack[i] = diff_stack[j] => i = j
    /\ mpc \in {"remove", "done"} =>
        /\ Len(all_removed_files)
                = Cardinality({n \in Nodes : InTree(WalkedFs, n)})
        /\ UNION {all_removed_files[i] : i \in 1..Len(all_removed_files)}
                = ExpectedRemovals(WalkedFs)
        /\ \A i, j \in 1..Len(all_removed_files) :
                i # j => all_removed_files[i] \cap all_removed_files[j] = {}

C14_Witness ==
    /\ mpc = "remove"
    /\ timed_out # {}
    /\ Len(all_removed_files) >= 3
    /\ \E n \in Nodes :
        /\ tpc[n] = "queued"
        /\ \E t \in BagToSet(CollectedRemovals) : Parent(t[2]) = n
    /\ \E t \in BagToSet(CollectedRemovals) : Parent(t[2]) = Root

\* the driver has left the drain loop by its condition
LoopLeft == mpc \in {"shutdown", "return"} \/ PostReturn

\* the entries the driver has taken from the queue
Dequeued ==
    result_lot \cup timed_out
        \cup (IF mpc \in {"wait", "raised_wait"} THEN {cur} ELSE {})

\* the entries of the queue
Queued == {async_result_lot[i] : i \in 1..Len(async_result_lot)}

\* C15: a timeout does not end the drain: no exception leaves the loop but
\* that of a task that raised, and when the driver has left the loop it has
\* taken and waited on every entry of the queue, those put after a timeout
\* too; what is in the queue then was put later, by a task below a directory
\* whose wait timed out.
C15_TimeoutNotFatal ==
    /\ mpc = "raised_wait" => tpc[cur] = "raised"
    /\ LoopLeft =>
        \A n \in Queued : \E t \in timed_out : Under(t, n) /\ t # n

C15_Witness ==
    /\ PostReturn
    /\ timed_out = {<<"a">>}
    /\ {<<"a", "b">>, <<"d">>} \subseteq result_lot

\* C16: pool_lock is held only by a call of process_diff that is inside one
\* of its two critical sections: no call has ended, by returning or by
\* raising, with the lock held.
C16_LockNeverLeaked ==
    pool_lock # Free => tpc[pool_lock] \in {"cs1", "cs2"}

\* collect_updates has ended: it returned to line 353, or the exception of
\* a listing that failed left it
UpdatesEnded == mpc \in {"copy", "raised_root", "raised_wait"}

\* C17: a call of collect_updates ends in every run, with or without
\* timeouts: the drain loop finds the queue empty and collect_updates
\* returns, if no listing raised; no task waits for another task's end, so
\* the pool's workers do not deadlock.
C17_UpdatesTerminate == (mpc = "root") ~> UpdatesEnded

C17_Witness ==
    /\ mpc = "copy"
    /\ timed_out # {}
    /\ result_lot # {}
    /\ \E n \in Nodes : tpc[n] = "queued"

\* C18: no node is visited twice: a node is in the queue or taken from it
\* at most once (it was submitted at most once, the root never), it has
\* appended at most one item to the accumulator, and no pair occurs twice
\* in what collect_updates returns.
C18_NoDuplicateVisits ==
    /\ \A i, j \in 1..Len(async_result_lot) :
            async_result_lot[i] = async_result_lot[j] => i = j
    /\ Queued \cap Dequeued = {}
    /\ Root \notin Queued \cup Dequeued
    /\ \A i, j \in 1..Len(all_diff_files) :
            all_diff_files[i].node = all_diff_files[j].node => i = j
    /\ \A i, j \in 1..Len(returned) :
            i # j => returned[i].pairs \cap returned[j].pairs = {}

C18_Witness ==
    /\ PostReturn
    /\ Len(all_diff_files) = 4
    /\ \E i, j \in 1..Len(returned) :
        i # j /\ returned[i].pairs # {} /\ returned[j].pairs # {}
    /\ result_lot = {<<"a">>, <<"a", "b">>, <<"d">>}

\* the nodes whose process_diff was submitted to the pool
Submitted == {n \in Nodes \ {Root} : tpc[n] # "idle"}

\* C19: whenever pool_lock is free, every submitted future has its entry in
\* the queue or was taken from it by the driver; when a call of process_diff
\* has returned, all its children are registered; so when the driver has
\* left the loop and no wait timed out, it has received the result of every
\* submitted task.
C19_SubmittedImpliesRegistered ==
    /\ pool_lock = Free => Submitted \subseteq Queued \cup Dequeued
    /\ \A n \in Nodes :
        tpc[n] = "done" => cache[n].subdirs \subseteq Queued \cup Dequeued
    /\ (LoopLeft /\ timed_out = {}) => Submitted \subseteq result_lot

\* the first conjunct of C19 without its condition: false while a task is
\* between submit and put
C19_RegisteredAtOnce == Submitted \subseteq Queued \cup Dequeued

C19_Witness ==
    /\ pool_lock = Free
    /\ Submitted = {<<"a">>, <<"a", "b">>, <<"d">>}
    /\ Queued # {}
    /\ Dequeued # {}
    /\ \E n \in Queued : Executing(n)

=============================================================================
